---- MODULE Spec2Model ----
(***************************************************************************)
(* Vocabulary lifecycle and spaced-repetition scheduling of the Danish     *)
(* tutor: the SM-2 scheduler (srsAlgorithm.ts), the vocabulary store       *)
(* (useVocabularyTracker), the due queries and the flashcard review        *)
(* session (both FlashcardView versions of the repository).                *)
(*                                                                         *)
(* Representation.  Ease factors are kept in hundredths (2.5 is 250), so   *)
(* the scheduler's arithmetic is exact integer arithmetic.  Timestamps are *)
(* whole days on the clock `now`.  Date.now() inside an id is the number   *)
(* of the extraction call that created the word (`stamp`): ids made in one *)
(* synchronous loop share the millisecond, ids of different calls do not.  *)
(***************************************************************************)
EXTENDS Integers, Sequences, FiniteSets, TLC

VARIABLES
    now,            \* the wall clock, in days
    stamp,          \* Date.now() as seen by generateVocabularyId
    vocabulary,     \* useVocabularyTracker: React state `vocabulary`
    persisted,      \* localStorage[STORAGE_KEYS.VOCABULARY]
    quotaFull,      \* localStorage.setItem throws (quota exceeded)
    hasError,       \* ErrorBoundary: a render of the application threw
    showFlashcards, \* DanishTutorApp: the flashcard session is mounted
    variant,        \* which FlashcardView of the repository is built in
    propVocab,      \* the `vocabulary` prop FlashcardView got at the last render
    remainingWords, \* FlashcardView (3-button): React state `remainingWords`
    currentIndex,   \* FlashcardView: React state `currentIndex`
    stats,          \* FlashcardView: React state `stats`
    showSummary,    \* FlashcardView: React state `showSummary`
    ops,            \* number of operations of the single-word lifecycle so far
    last,           \* history: the most recent operation on a stored word
    prev,           \* history: the operation before `last`
    adds,           \* history: the add calls so far
    sess,           \* history: the open session
    dueResult,      \* the answer of the most recent due query
    loaded,         \* history: what the store read from localStorage when it mounted
    retry,          \* retryWithBackoff: the call in progress
    wake            \* useWakeLock: refs, the requests in flight and the sentinels

storeVars == <<vocabulary, persisted>>
viewVars == <<showFlashcards, propVocab, remainingWords, currentIndex, stats, showSummary>>
histVars == <<ops, last, prev>>
sideVars == <<loaded, retry, wake>>
vars == <<now, stamp, vocabulary, persisted, quotaFull, hasError, showFlashcards,
          variant, propVocab, remainingWords, currentIndex, stats, showSummary,
          ops, last, prev, adds, sess, dueResult, loaded, retry, wake>>

----------------------------------------------------------------------------
(* Bounds *)

MaxTime == 2         \* days the clock runs
MaxExtract == 1      \* extraction calls while a session can run
MaxBatch == 3        \* words one of these extraction calls returns
MaxStoreExtract == 2 \* extraction calls in the store check
MaxStoreBatch == 1   \* words one of these extraction calls returns
MaxSessExtract == 1  \* extraction calls in the session check
MaxSessBatch == 1    \* words one of these extraction calls returns
MaxAddOps == 3       \* addWord calls in one run of the add check
MaxStamp == 1        \* milliseconds that pass between the addWord calls of that run
MaxLifeOps == 4      \* operations on the word in one run on a running clock
MaxApiOps == 3       \* calls in one run of the hooks' operations on one word
MaxDueDate == 2      \* due queries: review dates and query times 0 .. MaxDueDate
MaxOps == 8          \* operations in one run of the single-word lifecycle
MaxCalls == 2        \* consecutive reviews of one word in the scheduler check
MaxEaseStepsIn == 70 \* scheduler inputs: easeFactor 1.30, 1.32, ... (steps of 0.02)
MaxIntervalIn == 7   \* scheduler inputs: interval 1 .. MaxIntervalIn
MaxRepsIn == 3       \* scheduler inputs: repetitions 0 .. MaxRepsIn
MaxKeepTime == 1     \* days the clock runs in the check of what leaves the store
MaxKeepExtract == 1  \* extraction calls in that check
MaxLoadOps == 3      \* operations after the store mounted on a damaged localStorage
MaxRaceExtract == 2  \* extraction calls around a session: one before it, one during it
MaxRaceBatch == 1    \* words one of these extraction calls returns
MaxRetriesIn == 3    \* retryWithBackoff inputs: maxRetries 0 .. MaxRetriesIn
MaxWakeCalls == 3    \* requestWakeLock / releaseWakeLock calls in one run
MaxWakeFlips == 2    \* visibility changes in one run

----------------------------------------------------------------------------
(* Program constants *)

InitialEase == 250       \* createInitialSRSData: easeFactor 2.5
MinEase == 130           \* calculateNextReview: Math.max(1.3, ...)
FailPenalty == 20        \* calculateNextReview: easeFactor - 0.2
SecondInterval == 6      \* calculateNextReview: interval = 6
MasteredHorizon == 365   \* mastered branch: 365 * 24 * 60 * 60 * 1000 ms

\* qualities a caller can hand to calculateNextReview (its parameter is `number`)
QualityInputs == -1 .. 6
\* the documented range of a quality
ValidQuality == 0 .. 5

Surface == {"hej", "Hej", "god dag", "god_dag"}

----------------------------------------------------------------------------
(* Helpers *)

Max(a, b) == IF a >= b THEN a ELSE b

\* Math.round(x / 100) for x >= 0 (halves round up)
Round100(x) == (x + 50) \div 100

\* String.prototype.toLowerCase on the surface forms of the model
toLowerCase(s) ==
    CASE s = "Hej" -> "hej"
      [] OTHER -> s

\* s.replace(/\s+/g, '_') on the (lower-cased) surface forms of the model
replaceSpaces(s) ==
    CASE s = "god dag" -> "god_dag"
      [] OTHER -> s

generateVocabularyId(danishWord, ms) ==
    <<replaceSpaces(toLowerCase(danishWord)), ms>>

\* { ...w, ...updates }
Merge(w, updates) ==
    [k \in DOMAIN w |-> IF k \in DOMAIN updates THEN updates[k] ELSE w[k]]

----------------------------------------------------------------------------
(* srsAlgorithm.ts *)

\* 0.1 - (5 - quality) * (0.08 + (5 - quality) * 0.02), in hundredths
EaseDelta(quality) == 10 - (5 - quality) * (8 + (5 - quality) * 2)

\* calculateNextReview without the Math.max(1.3, ...) floor
calculateNextReviewNoFloor(quality, currentSRS, t) ==
    IF quality < 3
    THEN [easeFactor |-> currentSRS.easeFactor - FailPenalty,
          interval |-> 1,
          repetitions |-> 0,
          nextReviewDate |-> t + 1]
    ELSE LET ef == currentSRS.easeFactor + EaseDelta(quality)
             iv == IF currentSRS.repetitions = 0 THEN 1
                   ELSE IF currentSRS.repetitions = 1 THEN SecondInterval
                   ELSE Round100(currentSRS.interval * ef)
         IN  [easeFactor |-> ef,
              interval |-> iv,
              repetitions |-> currentSRS.repetitions + 1,
              nextReviewDate |-> t + iv]

\* calculateNextReview where a failure keeps the interval it had
calculateNextReviewKeepInterval(quality, currentSRS, t) ==
    IF quality < 3
    THEN [easeFactor |-> Max(MinEase, currentSRS.easeFactor - FailPenalty),
          interval |-> currentSRS.interval,
          repetitions |-> 0,
          nextReviewDate |-> t + currentSRS.interval]
    ELSE LET ef == Max(MinEase, currentSRS.easeFactor + EaseDelta(quality))
             iv == IF currentSRS.repetitions = 0 THEN 1
                   ELSE IF currentSRS.repetitions = 1 THEN SecondInterval
                   ELSE Round100(currentSRS.interval * ef)
         IN  [easeFactor |-> ef,
              interval |-> iv,
              repetitions |-> currentSRS.repetitions + 1,
              nextReviewDate |-> t + iv]

\* calculateNextReview where the second success also multiplies by the ease
calculateNextReviewNoSecond(quality, currentSRS, t) ==
    IF quality < 3
    THEN [easeFactor |-> Max(MinEase, currentSRS.easeFactor - FailPenalty),
          interval |-> 1,
          repetitions |-> 0,
          nextReviewDate |-> t + 1]
    ELSE LET ef == Max(MinEase, currentSRS.easeFactor + EaseDelta(quality))
             iv == IF currentSRS.repetitions = 0 THEN 1
                   ELSE Round100(currentSRS.interval * ef)
         IN  [easeFactor |-> ef,
              interval |-> iv,
              repetitions |-> currentSRS.repetitions + 1,
              nextReviewDate |-> t + iv]

\* calculateNextReview where a failure sets the interval to 0 days
calculateNextReviewZeroInterval(quality, currentSRS, t) ==
    IF quality < 3
    THEN [easeFactor |-> Max(MinEase, currentSRS.easeFactor - FailPenalty),
          interval |-> 0,
          repetitions |-> 0,
          nextReviewDate |-> t]
    ELSE LET ef == Max(MinEase, currentSRS.easeFactor + EaseDelta(quality))
             iv == IF currentSRS.repetitions = 0 THEN 1
                   ELSE IF currentSRS.repetitions = 1 THEN SecondInterval
                   ELSE Round100(currentSRS.interval * ef)
         IN  [easeFactor |-> ef,
              interval |-> iv,
              repetitions |-> currentSRS.repetitions + 1,
              nextReviewDate |-> t + iv]

\* calculateNextReview with the two fixed intervals swapped (6 days, then 1)
calculateNextReviewSwapped(quality, currentSRS, t) ==
    IF quality < 3
    THEN [easeFactor |-> Max(MinEase, currentSRS.easeFactor - FailPenalty),
          interval |-> 1,
          repetitions |-> 0,
          nextReviewDate |-> t + 1]
    ELSE LET ef == Max(MinEase, currentSRS.easeFactor + EaseDelta(quality))
             iv == IF currentSRS.repetitions = 0 THEN SecondInterval
                   ELSE IF currentSRS.repetitions = 1 THEN 1
                   ELSE Round100(currentSRS.interval * ef)
         IN  [easeFactor |-> ef,
              interval |-> iv,
              repetitions |-> currentSRS.repetitions + 1,
              nextReviewDate |-> t + iv]

\* calculateNextReview multiplying by the ease factor as it was before the review
calculateNextReviewOldEase(quality, currentSRS, t) ==
    IF quality < 3
    THEN [easeFactor |-> Max(MinEase, currentSRS.easeFactor - FailPenalty),
          interval |-> 1,
          repetitions |-> 0,
          nextReviewDate |-> t + 1]
    ELSE LET ef == Max(MinEase, currentSRS.easeFactor + EaseDelta(quality))
             iv == IF currentSRS.repetitions = 0 THEN 1
                   ELSE IF currentSRS.repetitions = 1 THEN SecondInterval
                   ELSE Round100(currentSRS.interval * currentSRS.easeFactor)
         IN  [easeFactor |-> ef,
              interval |-> iv,
              repetitions |-> currentSRS.repetitions + 1,
              nextReviewDate |-> t + iv]

calculateNextReview(quality, currentSRS, t) ==
    IF quality < 3
    THEN [easeFactor |-> Max(MinEase, currentSRS.easeFactor - FailPenalty),
          interval |-> 1,
          repetitions |-> 0,
          nextReviewDate |-> t + 1]
    ELSE LET ef == Max(MinEase, currentSRS.easeFactor + EaseDelta(quality))
             iv == IF currentSRS.repetitions = 0 THEN 1
                   ELSE IF currentSRS.repetitions = 1 THEN SecondInterval
                   ELSE Round100(currentSRS.interval * ef)
         IN  [easeFactor |-> ef,
              interval |-> iv,
              repetitions |-> currentSRS.repetitions + 1,
              nextReviewDate |-> t + iv]

calculateProficiencyLevel(srsData) ==
    IF srsData.repetitions = 0 THEN "new"
    ELSE IF srsData.repetitions < 3 THEN "learning"
    ELSE IF srsData.repetitions < 6 THEN "familiar"
    ELSE "mastered"

----------------------------------------------------------------------------
(* useSpacedRepetition.ts *)

updateWordWithReview(word, quality, t) ==
    LET newSRSData == calculateNextReview(quality, word.srsData, t)
    IN  Merge(word,
              [lastPracticed |-> t,
               practiceCount |-> word.practiceCount + 1,
               proficiencyLevel |-> calculateProficiencyLevel(newSRSData),
               srsData |-> [easeFactor |-> newSRSData.easeFactor,
                            interval |-> newSRSData.interval,
                            repetitions |-> newSRSData.repetitions,
                            nextReviewDate |-> newSRSData.nextReviewDate,
                            lastQuality |-> {quality}]])

----------------------------------------------------------------------------
(* useVocabularyTracker *)

Absent == [present |-> FALSE, readable |-> TRUE, parses |-> TRUE, value |-> <<>>]

\* createInitialSRSData with the first review two days ahead
createInitialSRSDataLate(t) ==
    [easeFactor |-> InitialEase,
     interval |-> 1,
     repetitions |-> 0,
     nextReviewDate |-> t + 2,
     lastQuality |-> {}]

createInitialSRSData(t) ==
    [easeFactor |-> InitialEase,
     interval |-> 1,
     repetitions |-> 0,
     nextReviewDate |-> t + 1,
     lastQuality |-> {}]

\* the word extractAndAddVocabulary hands to addWord, completed by addWord
NewWord(danishWord, t, ms) ==
    [id |-> generateVocabularyId(danishWord, ms),
     danishWord |-> danishWord,
     firstEncountered |-> t,
     lastPracticed |-> t,
     practiceCount |-> 1,
     proficiencyLevel |-> "new",
     srsData |-> createInitialSRSData(t)]

\* what JSON.stringify(value) leaves under the key
Written(value) == [present |-> TRUE, readable |-> TRUE, parses |-> TRUE, value |-> value]

\* StorageManager.setItem: the new content of the key (localStorage throws when
\* the quota is used up or when the storage cannot be accessed at all)
setItem(old, value, full) == IF full \/ ~old.readable THEN old ELSE Written(value)

\* StorageManager.getItem(key, []) with the try/catch left out: whatever can be
\* made of the content of the key
getItemLenient(stored) == IF stored.present THEN stored.value ELSE <<>>

\* StorageManager.getItem(key, []): the default when the key is absent or
\* empty, when localStorage.getItem throws and when JSON.parse throws
getItem(stored) ==
    IF stored.present /\ stored.readable /\ stored.parses THEN stored.value ELSE <<>>

\* the lookup of addWord with the toLowerCase() calls left out (case-sensitive)
ExistsCaseSensitive(voc, danishWord) ==
    {i \in 1 .. Len(voc) : voc[i].danishWord = danishWord}

Exists(voc, danishWord) ==
    {i \in 1 .. Len(voc) : toLowerCase(voc[i].danishWord) = toLowerCase(danishWord)}

\* prev.find(...): the first match
Find(voc, danishWord) ==
    CHOOSE i \in Exists(voc, danishWord) : \A j \in Exists(voc, danishWord) : i <= j

\* the updater of addWord: the new list
addWordList(voc, danishWord, t, ms) ==
    IF Exists(voc, danishWord) # {}
    THEN LET e == voc[Find(voc, danishWord)]
         IN  [i \in 1 .. Len(voc) |->
                 IF voc[i].id = e.id
                 THEN Merge(voc[i], [practiceCount |-> voc[i].practiceCount + 1,
                                     lastPracticed |-> t])
                 ELSE voc[i]]
    ELSE Append(voc, NewWord(danishWord, t, ms))

\* the updater of addWord: the new content of localStorage
addWordStore(voc, stored, danishWord, t, ms, full) ==
    IF Exists(voc, danishWord) # {}
    THEN stored
    ELSE setItem(stored, Append(voc, NewWord(danishWord, t, ms)), full)

\* updateWord taking a word out of the list when the update makes it mastered
updateWordListDropMastered(voc, id, updates) ==
    SelectSeq([i \in 1 .. Len(voc) |->
                  IF voc[i].id = id THEN Merge(voc[i], updates) ELSE voc[i]],
              LAMBDA w : w.id # id \/ w.proficiencyLevel # "mastered")

\* the updater of updateWord: the new list
updateWordList(voc, id, updates) ==
    [i \in 1 .. Len(voc) |->
        IF voc[i].id = id THEN Merge(voc[i], updates) ELSE voc[i]]

\* the mastered branch of handleReview: the updates it hands to onUpdateWord
masteredUpdates(currentWord, t) ==
    [proficiencyLevel |-> "mastered",
     srsData |-> Merge(currentWord.srsData,
                       [repetitions |-> currentWord.srsData.repetitions + 1,
                        nextReviewDate |-> t + MasteredHorizon])]

----------------------------------------------------------------------------
(* History records *)

NoWord == [id |-> <<"", 0>>, danishWord |-> "", firstEncountered |-> 0,
           lastPracticed |-> 0, practiceCount |-> 0, proficiencyLevel |-> "new",
           srsData |-> [easeFactor |-> 0, interval |-> 0, repetitions |-> 0,
                        nextReviewDate |-> 0, lastQuality |-> {}]]

NoOp == [op |-> "none", q |-> 0, before |-> NoWord, after |-> NoWord, threw |-> FALSE]

\* an operation of the hooks as its caller sees it: the stored word before and
\* after, and whether the call threw (no operation of the hooks has a throw
\* statement, and StorageManager catches what localStorage throws)
Op(name, q, before, after) ==
    [op |-> name, q |-> q, before |-> before, after |-> after, threw |-> FALSE]

\* the parts of the state the scheduler and lifecycle checks leave alone
NoSession == [initial |-> <<>>, actions |-> 0, skipped |-> 0, removed |-> {},
              shown |-> {}, act |-> "none", listBefore |-> <<>>, idxBefore |-> 0,
              shownBefore |-> {}, button |-> "none", quality |-> 0, at |-> 0,
              before |-> NoWord, after |-> NoWord, counted |-> FALSE,
              saved |-> TRUE, graded |-> 0, passed |-> 0]

NoAdds == [count |-> [f \in {toLowerCase(x) : x \in Surface} |-> 0], only |-> TRUE]

ZeroStats == [totalReviewed |-> 0, againCount |-> 0, hardCount |-> 0, goodCount |-> 0,
              easyCount |-> 0, forgotCount |-> 0, rememberedCount |-> 0,
              masteredCount |-> 0]

NoDue == [by |-> "none", t |-> 0, store |-> <<>>, result |-> <<>>]

NoLoad == [from |-> "none", result |-> <<>>]

NoError == [status |-> 0, invalidKey |-> FALSE]

NoConfig == [maxRetries |-> 0, initialDelay |-> 0, maxDelay |-> 0, backoffMultiplier |-> 0]

NoRetry == [status |-> "idle", config |-> NoConfig, attempt |-> 0, delay |-> 0,
            invocations |-> 0, lastError |-> NoError, sleepFor |-> 0,
            returned |-> 0, thrown |-> NoError]

\* sentinelRef 0 is null; sentinels are numbered as the browser hands them out
NoWake == [shouldHold |-> FALSE, sentinelRef |-> 0, isActive |-> FALSE,
           visible |-> TRUE, inFlight |-> 0, held |-> {}, events |-> {},
           nextSentinel |-> 1, lastCall |-> "none", calls |-> 0, flips |-> 0]

AppIdle ==
    /\ hasError = FALSE
    /\ showFlashcards = FALSE
    /\ propVocab = <<>>
    /\ remainingWords = <<>>
    /\ currentIndex = 0
    /\ stats = ZeroStats
    /\ showSummary = FALSE
    /\ adds = NoAdds
    /\ sess = NoSession
    /\ dueResult = NoDue
    /\ loaded = NoLoad
    /\ retry = NoRetry
    /\ wake = NoWake

appVars == <<hasError, showFlashcards, variant, propVocab, remainingWords,
             currentIndex, stats, showSummary, adds, sess, dueResult, sideVars>>

----------------------------------------------------------------------------
(* The lifecycle of one stored word: creation, reinforcement, reviews with *)
(* every documented quality, mastered override.                            *)

WordSurface == {"hej", "Hej"}

InitWord ==
    /\ now = 0
    /\ stamp = 0
    /\ vocabulary = <<>>
    /\ persisted = Absent
    /\ quotaFull = FALSE
    /\ ops = 0
    /\ last = NoOp
    /\ prev = NoOp
    /\ variant = "3-button"
    /\ AppIdle

\* addWord, called for one extracted word
WordAdd(s) ==
    /\ ops < MaxOps
    /\ vocabulary' = addWordList(vocabulary, s, now, stamp)
    /\ persisted' = addWordStore(vocabulary, persisted, s, now, stamp, quotaFull)
    /\ ops' = ops + 1
    /\ last' = Op(IF vocabulary = <<>> THEN "create" ELSE "reinforce", 0,
                  IF vocabulary = <<>> THEN NoWord ELSE vocabulary[1], vocabulary'[1])
    /\ UNCHANGED <<now, stamp, quotaFull, prev, appVars>>

\* onUpdateWord(word.id, updateWordWithReview(word, quality))
WordReview(q) ==
    /\ ops < MaxOps
    /\ vocabulary # <<>>
    /\ LET w == vocabulary[1]
           updated == updateWordList(vocabulary, w.id, updateWordWithReview(w, q, now))
       IN  /\ vocabulary' = updated
           /\ persisted' = setItem(persisted, updated, quotaFull)
           /\ last' = Op("review", q, w, updated[1])
    /\ ops' = ops + 1
    /\ UNCHANGED <<now, stamp, quotaFull, prev, appVars>>

\* onUpdateWord(word.id, { proficiencyLevel: 'mastered', srsData: ... })
WordMastered ==
    /\ ops < MaxOps
    /\ vocabulary # <<>>
    /\ LET w == vocabulary[1]
           updated == updateWordList(vocabulary, w.id, masteredUpdates(w, now))
       IN  /\ vocabulary' = updated
           /\ persisted' = setItem(persisted, updated, quotaFull)
           /\ last' = Op("mastered", 5, w, updated[1])
    /\ ops' = ops + 1
    /\ UNCHANGED <<now, stamp, quotaFull, prev, appVars>>

NextWord ==
    \/ \E s \in WordSurface : WordAdd(s)
    \/ \E q \in ValidQuality : WordReview(q)
    \/ WordMastered

SpecWord == InitWord /\ [][NextWord]_vars

----------------------------------------------------------------------------
(* C1 - Ease floor: after any sequence of creation, reinforcement, reviews *)
(* and mastered overrides, a stored word's easeFactor is never below 1.3.  *)

EaseFloor ==
    \A i \in 1 .. Len(vocabulary) : vocabulary[i].srsData.easeFactor >= MinEase

\* a review has just pushed the ease factor onto the floor
EaseFloorWitness ==
    /\ last.op = "review"
    /\ last.before.srsData.easeFactor
         + (IF last.q < 3 THEN -FailPenalty ELSE EaseDelta(last.q)) < MinEase
    /\ vocabulary[1].srsData.easeFactor = MinEase

----------------------------------------------------------------------------
(* The scheduler as a function: calculateNextReview, reached through       *)
(* updateWordWithReview and updateWord, applied once or twice in a row to  *)
(* a stored word whose schedule state is drawn from the input space, with  *)
(* every quality a caller can pass.                                        *)

SRSInputs ==
    [easeFactor : {MinEase + 2 * k : k \in 0 .. MaxEaseStepsIn},
     interval : 1 .. MaxIntervalIn,
     repetitions : 0 .. MaxRepsIn,
     nextReviewDate : {1},
     lastQuality : {{}}]

InitCalc ==
    /\ now = 0
    /\ stamp = 0
    /\ \E srs \in SRSInputs :
         vocabulary = <<Merge(NewWord("hej", 0, 0),
                              [proficiencyLevel |-> calculateProficiencyLevel(srs),
                               srsData |-> srs])>>
    /\ persisted = Written(vocabulary)
    /\ quotaFull = FALSE
    /\ ops = 0
    /\ last = NoOp
    /\ prev = NoOp
    /\ variant = "3-button"
    /\ AppIdle

\* onUpdateWord(word.id, updateWordWithReview(word, quality))
CalcReview(q) ==
    /\ ops < MaxCalls
    /\ LET w == vocabulary[1]
           updated == updateWordList(vocabulary, w.id, updateWordWithReview(w, q, now))
       IN  /\ vocabulary' = updated
           /\ persisted' = setItem(persisted, updated, quotaFull)
           /\ last' = Op("review", q, w, updated[1])
    /\ prev' = last
    /\ ops' = ops + 1
    /\ UNCHANGED <<now, stamp, quotaFull, appVars>>

NextCalc == \E q \in QualityInputs : CalcReview(q)

SpecCalc == InitCalc /\ [][NextCalc]_vars

----------------------------------------------------------------------------
(* C2 - Failure resets progress: for every prior schedule state and every  *)
(* quality < 3 the review leaves repetitions = 0, interval = 1 and         *)
(* easeFactor = max(1.3, easeFactor - 0.2).                                *)

FailureResetsOf(o) ==
    (o.op = "review" /\ o.q < 3) =>
        /\ o.after.srsData.repetitions = 0
        /\ o.after.srsData.interval = 1
        /\ o.after.srsData.easeFactor >= MinEase
        /\ o.after.srsData.easeFactor >= o.before.srsData.easeFactor - FailPenalty
        /\ o.after.srsData.easeFactor \in
              {MinEase, o.before.srsData.easeFactor - FailPenalty}

FailureResets == FailureResetsOf(last) /\ FailureResetsOf(prev)

\* a failed review of a word that had progress (repetitions and a long interval)
FailureResetsWitness ==
    /\ last.op = "review"
    /\ last.q \in 0 .. 2
    /\ last.before.srsData.repetitions >= 2
    /\ last.before.srsData.interval > 1
    /\ last.after.srsData.repetitions = 0
    /\ vocabulary[1] = last.after

----------------------------------------------------------------------------
(* C3 - First two successes are fixed: from repetitions = 0 one success    *)
(* (quality >= 3) gives interval 1 and a second consecutive success gives  *)
(* interval 6, whatever the ease factor and the two qualities.             *)

FirstSuccess(o) == o.op = "review" /\ o.q >= 3 /\ o.before.srsData.repetitions = 0

FirstTwoSuccesses ==
    /\ FirstSuccess(last) => last.after.srsData.interval = 1
    /\ FirstSuccess(prev) => prev.after.srsData.interval = 1
    /\ (FirstSuccess(prev) /\ last.op = "review" /\ last.q >= 3) =>
           last.after.srsData.interval = SecondInterval

\* two successes in a row from repetitions = 0, at an ease factor and a prior
\* interval for which the multiplication would not give 6
FirstTwoSuccessesWitness ==
    /\ FirstSuccess(prev)
    /\ prev.before.srsData.interval > 1
    /\ last.op = "review" /\ last.q >= 3
    /\ Round100(last.before.srsData.interval * last.after.srsData.easeFactor) # SecondInterval
    /\ vocabulary[1].srsData.interval = SecondInterval

----------------------------------------------------------------------------
(* Due queries and the list DanishTutorApp hands to FlashcardView *)

IsDue(w, t) == w.srsData.nextReviewDate <= t

\* Array.prototype.sort by nextReviewDate (ascending, stable)
RECURSIVE SortByDate(_)
SortByDate(ws) ==
    IF ws = <<>> THEN <<>>
    ELSE LET front == SortByDate(SubSeq(ws, 1, Len(ws) - 1))
             w == ws[Len(ws)]
             k == Cardinality({i \in 1 .. Len(front) :
                     front[i].srsData.nextReviewDate <= w.srsData.nextReviewDate})
         IN  SubSeq(front, 1, k) \o <<w>> \o SubSeq(front, k + 1, Len(front))

\* useSpacedRepetition.getDueWords
getDueWords(voc, t) == SortByDate(SelectSeq(voc, LAMBDA w : IsDue(w, t)))

\* useVocabularyTracker.getWordsDueForReview
getWordsDueForReview(voc, t) == SelectSeq(voc, LAMBDA w : IsDue(w, t))

nonMasteredWords(voc) == SelectSeq(voc, LAMBDA w : w.proficiencyLevel # "mastered")

\* vocabulary={dueWords.length > 0 ? dueWords : nonMasteredWords}
FlashcardProp(voc, t) ==
    IF Len(getDueWords(voc, t)) > 0 THEN getDueWords(voc, t) ELSE nonMasteredWords(voc)

----------------------------------------------------------------------------
(* The application: vocabulary store, clock and flashcard session *)

Variants == {"4-button", "3-button"}

Forms == {toLowerCase(x) : x \in Surface}

Words(ws) == [i \in 1 .. Len(ws) |-> ws[i].danishWord]

\* the words one extraction call can return, at most n of them
Batches(n) == UNION {[1 .. k -> Surface] : k \in 1 .. n}

\* the for-loop of extractAndAddVocabulary: <<new list, new localStorage content>>
RECURSIVE AddAll(_, _, _, _, _, _)
AddAll(voc, stored, ws, t, ms, full) ==
    IF ws = <<>> THEN <<voc, stored>>
    ELSE AddAll(addWordList(voc, Head(ws), t, ms),
                addWordStore(voc, stored, Head(ws), t, ms, full),
                Tail(ws), t, ms, full)

\* mapQualityRating with 'hard' mapped below the pass mark
mapQualityRatingHardFails(rating) ==
    CASE rating = "again" -> 0
      [] rating = "hard" -> 2
      [] rating = "good" -> 4
      [] rating = "easy" -> 5
      [] OTHER -> 3

\* mapQualityRating
mapQualityRating(rating) ==
    CASE rating = "again" -> 0
      [] rating = "hard" -> 3
      [] rating = "good" -> 4
      [] rating = "easy" -> 5
      [] OTHER -> 3

\* the quality mapping at the head of the 3-button handleReview
resultQuality(result) ==
    IF result = "forgot" THEN 0 ELSE IF result = "remembered" THEN 3 ELSE 5

Ratings == {"again", "hard", "good", "easy"}
Results == {"forgot", "remembered", "mastered"}

\* [`${x}Count`]: prev[`${x}Count`] + 1, with totalReviewed + 1
Counted(st, x) ==
    LET key == CASE x = "again" -> "againCount"
                 [] x = "hard" -> "hardCount"
                 [] x = "good" -> "goodCount"
                 [] x = "easy" -> "easyCount"
                 [] x = "forgot" -> "forgotCount"
                 [] x = "remembered" -> "rememberedCount"
                 [] OTHER -> "masteredCount"
    IN  [k \in DOMAIN st |->
            IF k = "totalReviewed" \/ k = key THEN st[k] + 1 ELSE st[k]]

\* Math.round((n / d) * 100), for n >= 0 and d > 0
RoundPercent(n, d) == (200 * n + d) \div (2 * d)

\* the accuracy the summary shows
accuracy(v, st) ==
    IF st.totalReviewed > 0
    THEN RoundPercent(IF v = "4-button" THEN st.goodCount + st.easyCount
                      ELSE st.rememberedCount + st.masteredCount,
                      st.totalReviewed)
    ELSE 0

\* the list a session walks
WalkList(v, prop, rem) == IF v = "4-button" THEN prop ELSE rem

\* which screen FlashcardView renders
Screen(v, prop, rem, idx, summary) ==
    IF prop = <<>> THEN "empty"
    ELSE IF summary THEN "summary"
    ELSE IF idx + 1 <= Len(WalkList(v, prop, rem)) THEN "card"
    ELSE "throw"        \* <Flashcard word={undefined}> reads word.danishWord

CurrentScreen ==
    Screen(variant, propVocab, remainingWords, currentIndex, showSummary)

Presenting == showFlashcards /\ ~hasError /\ CurrentScreen = "card"

currentWord == WalkList(variant, propVocab, remainingWords)[currentIndex + 1]

Init ==
    /\ now = 0
    /\ stamp = 0
    /\ vocabulary = <<>>
    /\ persisted = Absent
    /\ quotaFull = FALSE
    /\ ops = 0
    /\ last = NoOp
    /\ prev = NoOp
    /\ variant \in Variants
    /\ AppIdle

\* history of the session after a render that leaves the view in place
Shown(prop, rem, idx, summary) ==
    IF showFlashcards /\ Screen(variant, prop, rem, idx, summary) = "card"
    THEN sess.shown \cup {WalkList(variant, prop, rem)[idx + 1].danishWord}
    ELSE sess.shown

\* DanishTutorApp renders again with the store `voc`; FlashcardView keeps its state
Rerender(voc) ==
    /\ propVocab' = IF showFlashcards THEN FlashcardProp(voc, now) ELSE <<>>
    /\ hasError' = (showFlashcards
                    /\ Screen(variant, propVocab', remainingWords, currentIndex,
                              showSummary) = "throw")
    /\ sess' = [sess EXCEPT !.shown =
                   Shown(propVocab', remainingWords, currentIndex, showSummary)]
    /\ UNCHANGED <<showFlashcards, remainingWords, currentIndex, stats, showSummary>>

\* extractAndAddVocabulary, from the moment extractVocabularyFromMessage resolves
ExtractAndAddVocabulary(ws) ==
    /\ ~hasError
    /\ stamp' = stamp + 1
    /\ LET r == AddAll(vocabulary, persisted, ws, now, stamp + 1, quotaFull)
       IN  /\ vocabulary' = r[1]
           /\ persisted' = r[2]
           /\ Rerender(r[1])
    /\ adds' = [adds EXCEPT !.count = [f \in Forms |->
                   @[f] + Cardinality({i \in 1 .. Len(ws) : toLowerCase(ws[i]) = f})]]
    /\ UNCHANGED <<now, quotaFull, variant, histVars, dueResult, sideVars>>

\* deleteWord, from the delete button of the vocabulary list
DeleteWord(i) ==
    /\ ~hasError
    /\ ~showFlashcards
    /\ i \in 1 .. Len(vocabulary)
    /\ LET updated == SelectSeq(vocabulary, LAMBDA w : w.id # vocabulary[i].id)
       IN  /\ vocabulary' = updated
           /\ persisted' = setItem(persisted, updated, quotaFull)
           /\ Rerender(updated)
    /\ adds' = [adds EXCEPT !.only = FALSE]
    /\ UNCHANGED <<now, stamp, quotaFull, variant, histVars, dueResult, sideVars>>

\* clearAllWords
ClearAllWords ==
    /\ ~hasError
    /\ ~showFlashcards
    /\ vocabulary # <<>>
    /\ vocabulary' = <<>>
    /\ persisted' = Absent
    /\ Rerender(<<>>)
    /\ adds' = [adds EXCEPT !.only = FALSE]
    /\ UNCHANGED <<now, stamp, quotaFull, variant, histVars, dueResult, sideVars>>

\* a day passes
Tick ==
    /\ now < MaxTime
    /\ now' = now + 1
    /\ UNCHANGED <<stamp, storeVars, quotaFull, hasError, variant, viewVars,
                   histVars, adds, sess, dueResult, sideVars>>

\* DanishTutorApp renders again for a reason of its own (chat, settings, ...)
ParentRerender ==
    /\ ~hasError
    /\ showFlashcards
    /\ propVocab # FlashcardProp(vocabulary, now)
    /\ Rerender(vocabulary)
    /\ UNCHANGED <<now, stamp, storeVars, quotaFull, variant, histVars, adds, dueResult, sideVars>>

\* setShowFlashcards(true): FlashcardView mounts
OpenFlashcards ==
    /\ ~hasError
    /\ ~showFlashcards
    /\ sess.actions = 0 /\ sess.initial = <<>>
    /\ LET prop == FlashcardProp(vocabulary, now)
       IN  /\ propVocab' = prop
           /\ remainingWords' = IF variant = "3-button" THEN prop ELSE <<>>
           /\ sess' = [NoSession EXCEPT !.initial = Words(prop),
                          !.shown = IF prop = <<>> THEN {} ELSE {prop[1].danishWord}]
    /\ showFlashcards' = TRUE
    /\ currentIndex' = 0
    /\ stats' = ZeroStats
    /\ showSummary' = FALSE
    /\ UNCHANGED <<now, stamp, storeVars, quotaFull, hasError, variant, histVars,
                   adds, dueResult, sideVars>>

\* onClose: FlashcardView unmounts
CloseFlashcards ==
    /\ ~hasError
    /\ showFlashcards
    /\ showFlashcards' = FALSE
    /\ propVocab' = <<>>
    /\ remainingWords' = <<>>
    /\ currentIndex' = 0
    /\ stats' = ZeroStats
    /\ showSummary' = FALSE
    /\ sess' = [NoSession EXCEPT !.actions = 1]
    /\ UNCHANGED <<now, stamp, storeVars, quotaFull, hasError, variant, histVars,
                   adds, dueResult, sideVars>>

\* the stored word updateWord(id, ...) changes (the first one with that id)
Stored(voc, id) ==
    LET hits == {i \in 1 .. Len(voc) : voc[i].id = id}
    IN  IF hits = {} THEN NoWord
        ELSE voc[CHOOSE i \in hits : \A j \in hits : i <= j]

\* what a handler leaves behind: the store `voc`, the view state, and the
\* render that follows (the parent renders again when the store changed);
\* `button` is the button pressed and `quality` the qualityNumber it computed
Handled(button, quality, voc, rem, idx, summary, removedWord) ==
    /\ vocabulary' = voc
    /\ propVocab' = IF voc = vocabulary THEN propVocab ELSE FlashcardProp(voc, now)
    /\ remainingWords' = rem
    /\ currentIndex' = idx
    /\ showSummary' = summary
    /\ hasError' = (Screen(variant, propVocab', rem, idx, summary) = "throw")
    /\ sess' = [sess EXCEPT
                   !.actions = @ + 1,
                   !.skipped = IF button = "skip" THEN @ + 1 ELSE @,
                   !.removed = @ \cup removedWord,
                   !.shown = Shown(propVocab', rem, idx, summary),
                   !.act = IF button \in {"skip", "mastered"} THEN button ELSE "review",
                   !.button = button,
                   !.quality = quality,
                   !.at = now,
                   !.before = IF button = "skip" THEN NoWord
                              ELSE Stored(vocabulary, currentWord.id),
                   !.after = IF button = "skip" THEN NoWord
                             ELSE Stored(voc, currentWord.id),
                   !.counted = (stats' # stats),
                   !.saved = (button = "skip" \/ ~quotaFull),
                   !.graded = IF button = "skip" THEN @ ELSE @ + 1,
                   !.passed = IF button # "skip" /\ quality >= 3 THEN @ + 1 ELSE @,
                   !.listBefore = Words(WalkList(variant, propVocab, remainingWords)),
                   !.idxBefore = currentIndex,
                   !.shownBefore = sess.shown]
    /\ adds' = [adds EXCEPT !.only = (@ /\ voc = vocabulary)]
    /\ UNCHANGED <<now, stamp, quotaFull, showFlashcards, variant, histVars, dueResult, sideVars>>

\* FlashcardView.tsx: handleReview(quality)
HandleReview4(quality) ==
    /\ Presenting
    /\ variant = "4-button"
    /\ LET updatedWord == updateWordWithReview(currentWord, mapQualityRating(quality), now)
           updated == updateWordList(vocabulary, currentWord.id, updatedWord)
           more == currentIndex < Len(propVocab) - 1
       IN  /\ persisted' = setItem(persisted, updated, quotaFull)
           /\ stats' = Counted(stats, quality)
           /\ Handled(quality, mapQualityRating(quality), updated, remainingWords,
                      IF more THEN currentIndex + 1 ELSE currentIndex,
                      ~more, {})

\* FlashcardView (3-button): handleReview('forgot' | 'remembered')
HandleReview3(result) ==
    /\ Presenting
    /\ variant = "3-button"
    /\ result # "mastered"
    /\ LET updatedWord == updateWordWithReview(currentWord, resultQuality(result), now)
           updated == updateWordList(vocabulary, currentWord.id, updatedWord)
           more == currentIndex < Len(remainingWords) - 1
       IN  /\ persisted' = setItem(persisted, updated, quotaFull)
           /\ stats' = Counted(stats, result)
           /\ Handled(result, resultQuality(result), updated, remainingWords,
                      IF more THEN currentIndex + 1 ELSE currentIndex,
                      ~more, {})

\* FlashcardView (3-button): handleReview('mastered')
HandleMastered ==
    /\ Presenting
    /\ variant = "3-button"
    /\ LET newRemaining == [i \in 1 .. Len(remainingWords) - 1 |->
                              IF i < currentIndex + 1 THEN remainingWords[i]
                              ELSE remainingWords[i + 1]]
           updated == updateWordList(vocabulary, currentWord.id,
                                     masteredUpdates(currentWord, now))
       IN  /\ persisted' = setItem(persisted, updated, quotaFull)
           /\ stats' = Counted(stats, "mastered")
           /\ Handled("mastered", resultQuality("mastered"), updated, newRemaining,
                      IF Len(newRemaining) = 0 THEN currentIndex
                      ELSE IF currentIndex >= Len(newRemaining)
                           THEN Len(newRemaining) - 1
                           ELSE currentIndex,
                      Len(newRemaining) = 0,
                      {currentWord.danishWord})

\* handleSkip (the same code in both versions, over the list each walks)
HandleSkip ==
    /\ Presenting
    /\ LET more == currentIndex
                     < Len(WalkList(variant, propVocab, remainingWords)) - 1
       IN  /\ UNCHANGED <<persisted, stats>>
           /\ Handled("skip", 0, vocabulary, remainingWords,
                      IF more THEN currentIndex + 1 ELSE currentIndex,
                      ~more, {})

\* ErrorBoundary.resetError ("Try Again"): DanishTutorApp mounts anew
ResetError ==
    /\ hasError
    /\ hasError' = FALSE
    /\ vocabulary' = getItem(persisted)
    /\ showFlashcards' = FALSE
    /\ propVocab' = <<>>
    /\ remainingWords' = <<>>
    /\ currentIndex' = 0
    /\ stats' = ZeroStats
    /\ showSummary' = FALSE
    /\ sess' = [NoSession EXCEPT !.actions = 1]
    /\ adds' = [adds EXCEPT !.only = FALSE]
    /\ UNCHANGED <<now, stamp, persisted, quotaFull, variant, histVars, dueResult, sideVars>>

Next ==
    \/ stamp < MaxExtract /\ \E ws \in Batches(MaxBatch) : ExtractAndAddVocabulary(ws)
    \/ \E i \in 1 .. Len(vocabulary) : DeleteWord(i)
    \/ ClearAllWords
    \/ Tick
    \/ ParentRerender
    \/ OpenFlashcards
    \/ CloseFlashcards
    \/ \E quality \in Ratings : HandleReview4(quality)
    \/ \E result \in Results : HandleReview3(result)
    \/ HandleMastered
    \/ HandleSkip
    \/ ResetError

Spec == Init /\ [][Next]_vars

----------------------------------------------------------------------------
(* The vocabulary store on its own: extraction, deletion, clearing, time *)

NextStore ==
    \/ stamp < MaxStoreExtract
         /\ \E ws \in Batches(MaxStoreBatch) : ExtractAndAddVocabulary(ws)
    \/ \E i \in 1 .. Len(vocabulary) : DeleteWord(i)
    \/ ClearAllWords
    \/ Tick

SpecStore == Init /\ [][NextStore]_vars

----------------------------------------------------------------------------
(* C4 - Dedup invariant: after any sequence of add calls the store holds   *)
(* exactly one word for every Danish form added, whatever the letter case  *)
(* of the calls, and the practiceCount of a word (whose id no other stored *)
(* word shares) equals the number of add calls made for its form.          *)

WordsOfForm(f) == {i \in 1 .. Len(vocabulary) : toLowerCase(vocabulary[i].danishWord) = f}

DedupInvariant ==
    adds.only =>
        \A f \in Forms :
            /\ adds.count[f] = 0 => WordsOfForm(f) = {}
            /\ adds.count[f] > 0 =>
                 /\ Cardinality(WordsOfForm(f)) = 1
                 /\ \A i \in WordsOfForm(f) :
                      (\A j \in 1 .. Len(vocabulary) :
                          vocabulary[j].id = vocabulary[i].id => j = i)
                      => vocabulary[i].practiceCount = adds.count[f]

\* two add calls or more in both letter cases for one form: one stored word, reinforced
DedupInvariantWitness ==
    /\ adds.only
    /\ adds.count["hej"] >= 2
    /\ Len(vocabulary) = 1
    /\ vocabulary[1].danishWord = "Hej"
    /\ vocabulary[1].practiceCount = adds.count["hej"]
    /\ vocabulary[1].lastPracticed > vocabulary[1].firstEncountered

----------------------------------------------------------------------------
(* C5 - Every mutating store operation leaves the persisted collection     *)
(* equal to the in-memory collection when it returns (the storage accepts  *)
(* every write here), the reinforcement branch of addWord included.        *)

PersistedEqualsMemory == getItem(persisted) = vocabulary

----------------------------------------------------------------------------
(* C6 - Session completeness: a session started with N >= 1 words is in    *)
(* its complete state (the summary) after exactly N grading or skip        *)
(* actions, in any combination, and then totalReviewed + skipped = N.      *)

SessionCompleteness ==
    (showFlashcards /\ Len(sess.initial) >= 1) =>
        /\ sess.actions = Len(sess.initial) => showSummary
        /\ showSummary => sess.actions = Len(sess.initial)
        /\ showSummary => stats.totalReviewed + sess.skipped = Len(sess.initial)

----------------------------------------------------------------------------
(* C7 - After a card is graded 'mastered' and removed from the remaining   *)
(* list, the card presented next is the one that followed it; no card      *)
(* already presented is presented again, wherever the removed card stood.  *)

MasteredKeepsOrder ==
    (showFlashcards /\ ~hasError /\ sess.act = "mastered") =>
        /\ sess.idxBefore + 1 < Len(sess.listBefore) =>
             /\ ~showSummary
             /\ remainingWords[currentIndex + 1].danishWord
                  = sess.listBefore[sess.idxBefore + 2]
        /\ ~showSummary =>
             remainingWords[currentIndex + 1].danishWord \notin sess.shownBefore

----------------------------------------------------------------------------
(* C8 - The list a session walks is fixed when the session starts: apart   *)
(* from the cards the session itself removed as mastered, every position   *)
(* holds the word it held at the start, whatever happens to the store.     *)

RECURSIVE Without(_, _)
Without(ws, removed) ==
    IF ws = <<>> THEN <<>>
    ELSE IF Head(ws) \in removed THEN Without(Tail(ws), removed)
    ELSE <<Head(ws)>> \o Without(Tail(ws), removed)

SnapshotFixed ==
    showFlashcards =>
        Words(WalkList(variant, propVocab, remainingWords))
            = Without(sess.initial, sess.removed)

----------------------------------------------------------------------------
(* The due queries as functions of the store content and the time *)

\* a stored word whose next review is on day d
DueInput(s, d) ==
    Merge(NewWord(s, 0, 1),
          [srsData |-> Merge(createInitialSRSData(0), [nextReviewDate |-> d])])

\* stores of up to three words of different forms
DueStores ==
    {<<>>}
    \cup {<<DueInput(a, d)>> : a \in {"hej"}, d \in 0 .. MaxDueDate}
    \cup {<<DueInput("hej", d[1]), DueInput("god dag", d[2])>> :
             d \in (0 .. MaxDueDate) \X (0 .. MaxDueDate)}
    \cup {<<DueInput("hej", d[1]), DueInput("god dag", d[2]), DueInput("god_dag", d[3])>> :
             d \in (0 .. MaxDueDate) \X (0 .. MaxDueDate) \X (0 .. MaxDueDate)}

InitDue ==
    /\ now \in 0 .. MaxDueDate
    /\ stamp = 1
    /\ vocabulary \in DueStores
    /\ persisted = Written(vocabulary)
    /\ quotaFull = FALSE
    /\ ops = 0
    /\ last = NoOp
    /\ prev = NoOp
    /\ variant = "3-button"
    /\ AppIdle

dueVars == <<now, stamp, vocabulary, persisted, quotaFull, hasError, showFlashcards,
             variant, propVocab, remainingWords, currentIndex, stats, showSummary,
             ops, last, prev, adds, sess, sideVars>>

\* getDueWords(vocabulary), as DanishTutorApp calls it
QueryDueWords ==
    /\ dueResult' = [by |-> "getDueWords", t |-> now, store |-> vocabulary,
                     result |-> getDueWords(vocabulary, now)]
    /\ UNCHANGED dueVars

\* getWordsDueForReview()
QueryWordsDueForReview ==
    /\ dueResult' = [by |-> "getWordsDueForReview", t |-> now, store |-> vocabulary,
                     result |-> getWordsDueForReview(vocabulary, now)]
    /\ UNCHANGED dueVars

NextDue == QueryDueWords \/ QueryWordsDueForReview

SpecDue == InitDue /\ [][NextDue]_vars

----------------------------------------------------------------------------
(* C9 - Due-set correctness: a due query answers with exactly the words    *)
(* whose nextReviewDate <= t, in ascending order of nextReviewDate; both   *)
(* getDueWords and getWordsDueForReview.                                   *)

DueSetCorrect ==
    dueResult.by # "none" =>
        /\ {dueResult.result[i] : i \in 1 .. Len(dueResult.result)}
             = {dueResult.store[i] : i \in {j \in 1 .. Len(dueResult.store) :
                                              IsDue(dueResult.store[j], dueResult.t)}}
        /\ Len(dueResult.result)
             = Cardinality({j \in 1 .. Len(dueResult.store) :
                              IsDue(dueResult.store[j], dueResult.t)})
        /\ \A i, j \in 1 .. Len(dueResult.result) :
             i < j => dueResult.result[i].srsData.nextReviewDate
                        <= dueResult.result[j].srsData.nextReviewDate

----------------------------------------------------------------------------
(* C10 - A review with a quality outside 0..5 is rejected: no new schedule *)
(* state is produced and the stored word is unchanged.                     *)

InvalidQualityRejected ==
    (last.op = "review" /\ last.q \notin ValidQuality) => last.after = last.before

----------------------------------------------------------------------------
(* The flashcard session over a small store *)

NextSession ==
    \/ stamp < MaxSessExtract
         /\ \E ws \in Batches(MaxSessBatch) : ExtractAndAddVocabulary(ws)
    \/ OpenFlashcards
    \/ CloseFlashcards
    \/ \E quality \in Ratings : HandleReview4(quality)
    \/ \E result \in Results : HandleReview3(result)
    \/ HandleMastered
    \/ HandleSkip

SpecSession == Init /\ [][NextSession]_vars

----------------------------------------------------------------------------
(* C11 - Every failure button of a flashcard ('again', 'forgot') reaches   *)
(* the scheduler as a quality < 3 and every success button ('hard',        *)
(* 'good', 'easy', 'remembered', 'mastered') maps to a quality >= 3; the   *)
(* quality of a graded review is the one stored as lastQuality.            *)

FailureButtons == {"again", "forgot"}
SuccessButtons == {"hard", "good", "easy", "remembered", "mastered"}

RatingSides ==
    (showFlashcards /\ sess.act \in {"review", "mastered"}) =>
        /\ sess.button \in FailureButtons \cup SuccessButtons
        /\ sess.button \in FailureButtons => sess.quality < 3
        /\ sess.button \in SuccessButtons => sess.quality >= 3
        /\ sess.act = "review" => sess.after.srsData.lastQuality = {sess.quality}

\* 'hard', the lowest success button, has just been applied as a success
RatingSidesWitness ==
    /\ showFlashcards
    /\ sess.button = "hard"
    /\ sess.quality = 3
    /\ sess.after.srsData.repetitions = sess.before.srsData.repetitions + 1
    /\ sess.after.srsData.lastQuality = {3}

----------------------------------------------------------------------------
(* The operations the two hooks hand to their callers, called directly on  *)
(* a store of one word, with a localStorage that can run out of quota:     *)
(* from then on every localStorage.setItem throws, which                   *)
(* StorageManager.setItem catches and answers with `false`.                *)

\* an id no stored word has
UnknownId == <<"ukendt", 0>>

WordIds == {generateVocabularyId(x, 0) : x \in WordSurface} \cup {UnknownId}

\* the updates reviewWord hands to updateWord
reviewWordUpdates(quality, t) ==
    LET next == calculateNextReview(quality,
                    [easeFactor |-> InitialEase, interval |-> 1, repetitions |-> 0,
                     nextReviewDate |-> t], t)
    IN  [lastPracticed |-> t,
         practiceCount |-> 0,
         srsData |-> [easeFactor |-> next.easeFactor,
                      interval |-> next.interval,
                      repetitions |-> next.repetitions,
                      nextReviewDate |-> next.nextReviewDate,
                      lastQuality |-> {quality}]]

\* useSpacedRepetition.reviewWord({ wordId, quality }, updateWord)
ReviewWord(wordId, quality) ==
    /\ ops < MaxOps
    /\ LET updated == updateWordList(vocabulary, wordId, reviewWordUpdates(quality, now))
       IN  /\ vocabulary' = updated
           /\ persisted' = setItem(persisted, updated, quotaFull)
           /\ last' = Op("reviewWord", quality, Stored(vocabulary, wordId),
                         Stored(updated, wordId))
    /\ ops' = ops + 1
    /\ UNCHANGED <<now, stamp, quotaFull, prev, appVars>>

\* deleteWord(id)
WordDelete(id) ==
    /\ ops < MaxOps
    /\ LET updated == SelectSeq(vocabulary, LAMBDA w : w.id # id)
       IN  /\ vocabulary' = updated
           /\ persisted' = setItem(persisted, updated, quotaFull)
           /\ last' = Op("delete", 0, Stored(vocabulary, id), Stored(updated, id))
    /\ ops' = ops + 1
    /\ UNCHANGED <<now, stamp, quotaFull, prev, appVars>>

\* localStorage runs out of quota
QuotaExceeded ==
    /\ ~quotaFull
    /\ quotaFull' = TRUE
    /\ UNCHANGED <<now, stamp, storeVars, hasError, variant, viewVars, histVars,
                   adds, sess, dueResult, sideVars>>

NextApi ==
    \/ ops < MaxApiOps /\ \E s \in WordSurface : WordAdd(s)
    \/ ops < MaxApiOps /\ \E q \in ValidQuality : WordReview(q)
    \/ ops < MaxApiOps /\ WordMastered
    \/ ops < MaxApiOps /\ \E id \in WordIds, q \in ValidQuality : ReviewWord(id, q)
    \/ ops < MaxApiOps /\ \E id \in WordIds : WordDelete(id)
    \/ QuotaExceeded

SpecApi == InitWord /\ [][NextApi]_vars

----------------------------------------------------------------------------
(* C12 - A review applied to an id that is not in the store fails with an  *)
(* error its caller sees, and leaves the store unchanged.                  *)

UnknownIdRejected ==
    (last.op = "reviewWord" /\ last.before = NoWord) =>
        /\ last.threw
        /\ last.after = NoWord

----------------------------------------------------------------------------
(* C13 - Mastered override: grading a word 'mastered' sets its stored      *)
(* proficiencyLevel to mastered, its stored repetitions to the stored      *)
(* repetitions before plus one and nextReviewDate to now + 365 days, and   *)
(* leaves the stored easeFactor and interval as they were.                 *)

MasteredOverride ==
    (sess.act = "mastered" /\ sess.before # NoWord) =>
        /\ sess.after.proficiencyLevel = "mastered"
        /\ sess.after.srsData.repetitions = sess.before.srsData.repetitions + 1
        /\ sess.after.srsData.nextReviewDate = sess.at + MasteredHorizon
        /\ sess.after.srsData.easeFactor = sess.before.srsData.easeFactor
        /\ sess.after.srsData.interval = sess.before.srsData.interval

----------------------------------------------------------------------------
(* C14 - In every reachable store state the proficiencyLevel of a word is  *)
(* the classification of its repetitions, or mastered (the label the       *)
(* mastered override sets): every path that applies calculateNextReview to *)
(* a stored word refreshes the label.                                      *)

LabelMatchesRepetitions ==
    \A i \in 1 .. Len(vocabulary) :
        vocabulary[i].proficiencyLevel
            \in {calculateProficiencyLevel(vocabulary[i].srsData), "mastered"}

----------------------------------------------------------------------------
(* C15 - Every reinforcement and every graded review of a stored word,     *)
(* the mastered override included, adds exactly 1 to its practiceCount;    *)
(* no operation on a word resets or lowers it.                             *)

PracticeCountGrows ==
    /\ (last.op \in {"reinforce", "review", "mastered", "reviewWord"}
          /\ last.before # NoWord) =>
            last.after.practiceCount = last.before.practiceCount + 1
    /\ (last.before # NoWord /\ last.after # NoWord) =>
            last.after.practiceCount >= last.before.practiceCount

----------------------------------------------------------------------------
(* The lifecycle of one stored word on a running clock *)

NextLife ==
    \/ ops < MaxLifeOps /\ \E s \in WordSurface : WordAdd(s)
    \/ ops < MaxLifeOps /\ \E q \in ValidQuality : WordReview(q)
    \/ ops < MaxLifeOps /\ WordMastered
    \/ Tick

SpecLife == InitWord /\ [][NextLife]_vars

----------------------------------------------------------------------------
(* C16 - As stated: whenever an update to a word is committed (creation,   *)
(* reinforcement, review) its nextReviewDate is its lastPracticed plus its *)
(* interval in days; only a word the mastered override has set to mastered *)
(* may have a later nextReviewDate.                                        *)

----------------------------------------------------------------------------
(* addWord, one call at a time: calls made within one millisecond get ids  *)
(* with the same Date.now(), calls made later do not.                      *)

AddWord(s) ==
    /\ ops < MaxAddOps
    /\ vocabulary' = addWordList(vocabulary, s, now, stamp)
    /\ persisted' = addWordStore(vocabulary, persisted, s, now, stamp, quotaFull)
    /\ last' = IF Exists(vocabulary, s) # {}
               THEN Op("reinforce", 0, vocabulary[Find(vocabulary, s)],
                       vocabulary'[Find(vocabulary, s)])
               ELSE Op("create", 0, NoWord, vocabulary'[Len(vocabulary')])
    /\ ops' = ops + 1
    /\ UNCHANGED <<now, stamp, quotaFull, prev, appVars>>

\* a millisecond passes
Millisecond ==
    /\ stamp < MaxStamp
    /\ stamp' = stamp + 1
    /\ UNCHANGED <<now, storeVars, quotaFull, histVars, appVars>>

NextAdd ==
    \/ \E s \in Surface : AddWord(s)
    \/ Millisecond
    \/ Tick

SpecAdd == InitWord /\ [][NextAdd]_vars

----------------------------------------------------------------------------
(* C17 - Reinforcement frame: an addWord call for a word that already      *)
(* exists changes only practiceCount (+1) and lastPracticed of that word:  *)
(* its srsData, id, firstEncountered and proficiencyLevel are unchanged,   *)
(* and every other stored word is unchanged.                               *)

ReinforcementFrame ==
    [][(ops' = ops + 1 /\ last'.op = "reinforce") =>
          /\ Len(vocabulary') = Len(vocabulary)
          /\ \A i \in 1 .. Len(vocabulary) :
                IF vocabulary[i] = last'.before
                THEN /\ vocabulary'[i].practiceCount = vocabulary[i].practiceCount + 1
                     /\ vocabulary'[i]
                          = Merge(vocabulary[i],
                                  [practiceCount |-> vocabulary'[i].practiceCount,
                                   lastPracticed |-> vocabulary'[i].lastPracticed])
                ELSE vocabulary'[i] = vocabulary[i]]_vars

----------------------------------------------------------------------------
(* C18 - The accuracy of the session summary is the number of graded       *)
(* outcomes whose quality is >= 3 divided by the number of graded          *)
(* outcomes (as a rounded percentage); skipped cards count in neither and  *)
(* every success button of the scheme in use counts, 'hard' included.      *)

AccuracyCountsSuccesses ==
    (showFlashcards /\ ~hasError /\ CurrentScreen = "summary" /\ sess.graded > 0) =>
        accuracy(variant, stats) = RoundPercent(sess.passed, sess.graded)

----------------------------------------------------------------------------
(* The flashcard session with a localStorage that can run out of quota *)

NextQuota ==
    \/ NextSession
    \/ QuotaExceeded

SpecQuota == Init /\ [][NextQuota]_vars

----------------------------------------------------------------------------
(* C19 - If the store update or its persistence fails while a card is      *)
(* graded, the session does not advance: the same card stays current, the  *)
(* summary is not shown and no outcome counter is incremented.             *)

FailedGradingStays ==
    (showFlashcards /\ sess.act \in {"review", "mastered"} /\ ~sess.saved) =>
        /\ currentIndex = sess.idxBefore
        /\ ~showSummary
        /\ ~sess.counted
        /\ Words(WalkList(variant, propVocab, remainingWords)) = sess.listBefore

----------------------------------------------------------------------------
(* C20 - A failed localStorage write leaves memory and storage consistent: *)
(* after an operation on a word whose write failed, either the in-memory   *)
(* and the persisted collection both hold the word's new state, or the     *)
(* in-memory collection still holds the old one.                           *)

StateOf(words) == IF words = <<>> THEN NoWord ELSE words[1]

FailedWriteConsistent ==
    (quotaFull /\ last.op \in {"create", "review", "mastered", "reviewWord", "delete"}
               /\ last.before # last.after) =>
        \/ /\ StateOf(vocabulary) = last.after
           /\ StateOf(getItem(persisted)) = last.after
        \/ StateOf(vocabulary) = last.before

----------------------------------------------------------------------------
(* C22 - Interval stays positive: after any sequence of creations,         *)
(* reinforcements, reviews with quality 0..5 and mastered overrides, the   *)
(* interval of every stored word is an integer of at least 1 day.          *)

IntervalPositive ==
    \A i \in 1 .. Len(vocabulary) :
        /\ vocabulary[i].srsData.interval \in Nat
        /\ vocabulary[i].srsData.interval >= 1

\* a failed review has just reset an interval of several days, after the word
\* went through a mastered override
IntervalPositiveWitness ==
    /\ last.op = "review"
    /\ last.q < 3
    /\ last.before.proficiencyLevel = "mastered"
    /\ last.before.srsData.interval >= SecondInterval
    /\ vocabulary[1].srsData.interval = 1

----------------------------------------------------------------------------
(* C24 - Correct recall never shortens the interval: in every state        *)
(* reachable through creation, reviews and mastered overrides, a review    *)
(* with quality >= 3 leaves an interval at least as long as the one the    *)
(* word had before it.                                                     *)

----------------------------------------------------------------------------
(* C27 - Growth uses the updated ease factor: a successful review          *)
(* (quality 3..5) of a word with repetitions >= 2 sets the interval to     *)
(* round(interval * easeFactor) with the ease factor this same review has  *)
(* just adjusted, max(1.3, old + 0.1 - (5 - q) * (0.08 + (5 - q) * 0.02)), *)
(* and increases repetitions by one.                                       *)

GrowthOf(o) ==
    (o.op = "review" /\ o.q \in 3 .. 5 /\ o.before.srsData.repetitions >= 2) =>
        LET ef == Max(MinEase, o.before.srsData.easeFactor + EaseDelta(o.q))
        IN  /\ o.after.srsData.easeFactor = ef
            /\ o.after.srsData.interval = Round100(o.before.srsData.interval * ef)
            /\ o.after.srsData.repetitions = o.before.srsData.repetitions + 1

GrowthUsesNewEase == GrowthOf(last) /\ GrowthOf(prev)

\* a successful review where the ease factor before the review would have
\* given another interval
GrowthUsesNewEaseWitness ==
    /\ last.op = "review"
    /\ last.q \in 3 .. 5
    /\ last.before.srsData.repetitions >= 2
    /\ Round100(last.before.srsData.interval * last.before.srsData.easeFactor)
         # vocabulary[1].srsData.interval
    /\ vocabulary[1].srsData.easeFactor # last.before.srsData.easeFactor

----------------------------------------------------------------------------
(* The store under everything the application does to it: extraction with  *)
(* reinforcement, deletion, clearing, the passing of days, due queries,    *)
(* flashcard sessions of both versions and the reload after an error       *)

\* what an extraction call returns here: a word in two spellings (created,
\* then reinforced) or two words whose ids collide
KeepBatches == {<<"hej", "Hej">>, <<"god dag", "god_dag">>}

NextKeep ==
    \/ stamp < MaxKeepExtract
         /\ \E ws \in KeepBatches : ExtractAndAddVocabulary(ws)
    \/ \E i \in 1 .. Len(vocabulary) : DeleteWord(i)
    \/ ClearAllWords
    \/ now < MaxKeepTime /\ Tick
    \/ OpenFlashcards
    \/ CloseFlashcards
    \/ \E quality \in Ratings : HandleReview4(quality)
    \/ \E result \in Results : HandleReview3(result)
    \/ HandleMastered
    \/ HandleSkip
    \/ ResetError
    \/ dueResult.by = "none" /\ QueryDueWords
    \/ dueResult.by = "none" /\ QueryWordsDueForReview

SpecKeep == Init /\ [][NextKeep]_vars

----------------------------------------------------------------------------
(* C21 - Mastered words are never deleted: an entry leaves the store only  *)
(* through deleteWord or clearAllWords. Every other step (extraction with  *)
(* reinforcement, review, skip, mastered grading, due query, a day         *)
(* passing, the reload after an error) keeps every stored entry, with its  *)
(* id, at its place in the store.                                          *)

Kept(voc, voc2) ==
    /\ Len(voc2) >= Len(voc)
    /\ \A i \in 1 .. Len(voc) : voc2[i].id = voc[i].id

----------------------------------------------------------------------------
(* The store mounting on whatever localStorage holds, and used afterwards *)

\* what the key can hold when useVocabularyTracker mounts: nothing, a list
\* written earlier, a text JSON.parse rejects (here a list cut short), or
\* anything at all behind a localStorage whose access throws
StoredInputs ==
    {Absent, Written(<<>>), Written(<<NewWord("hej", 0, 0)>>)}
    \cup {[present |-> TRUE, readable |-> r, parses |-> p,
           value |-> <<NewWord("hej", 0, 0)>>] :
             r \in BOOLEAN, p \in BOOLEAN}

Damage(stored) ==
    IF ~stored.readable THEN "unreadable"
    ELSE IF ~stored.present THEN "absent"
    ELSE IF ~stored.parses THEN "invalid"
    ELSE "json"

\* useState(() => StorageManager.getItem(STORAGE_KEYS.VOCABULARY, []))
InitLoad ==
    /\ now = 0
    /\ stamp = 0
    /\ persisted \in StoredInputs
    /\ vocabulary = getItem(persisted)
    /\ quotaFull = FALSE
    /\ ops = 0
    /\ last = NoOp
    /\ prev = NoOp
    /\ variant = "3-button"
    /\ hasError = FALSE
    /\ showFlashcards = FALSE
    /\ propVocab = <<>>
    /\ remainingWords = <<>>
    /\ currentIndex = 0
    /\ stats = ZeroStats
    /\ showSummary = FALSE
    /\ adds = NoAdds
    /\ sess = NoSession
    /\ dueResult = NoDue
    /\ loaded = [from |-> Damage(persisted), result |-> vocabulary]
    /\ retry = NoRetry
    /\ wake = NoWake

\* the page is loaded again: the hook mounts anew on what localStorage holds now
Reload ==
    /\ ops < MaxLoadOps
    /\ ops > 0
    /\ vocabulary' = getItem(persisted)
    /\ loaded' = [from |-> Damage(persisted), result |-> vocabulary']
    /\ last' = Op("load", 0, NoWord, NoWord)
    /\ prev' = last
    /\ ops' = ops + 1
    /\ UNCHANGED <<now, stamp, persisted, quotaFull, hasError, variant, viewVars,
                   adds, sess, dueResult, retry, wake>>

NextLoad ==
    \/ ops < MaxLoadOps /\ \E s \in WordSurface : WordAdd(s)
    \/ ops < MaxLoadOps /\ \E q \in ValidQuality : WordReview(q)
    \/ ops < MaxLoadOps /\ \E id \in WordIds : WordDelete(id)
    \/ Reload

SpecLoad == InitLoad /\ [][NextLoad]_vars

----------------------------------------------------------------------------
(* C23 - Corrupt storage: when the persisted vocabulary cannot be read or  *)
(* is not valid JSON, loading yields the empty collection (nothing is      *)
(* thrown), and the store can be used afterwards: an add creates the word, *)
(* an update changes it, a delete removes it, and each of these writes the *)
(* new list over the damaged content when localStorage accepts writes.     *)

CorruptStorageLoadsEmpty ==
    /\ loaded.from \in {"unreadable", "invalid", "absent"} => loaded.result = <<>>
    /\ ~last.threw
    /\ last.op = "create" =>
          /\ vocabulary = <<last.after>>
          /\ last.after.danishWord \in WordSurface
          /\ last.after.practiceCount = 1
    /\ last.op = "review" =>
          /\ vocabulary = <<last.after>>
          /\ last.after.practiceCount = last.before.practiceCount + 1
          /\ last.after.srsData.lastQuality = {last.q}
    /\ (last.op = "delete" /\ last.before # NoWord) => vocabulary = <<>>
    /\ (last.op \in {"create", "review", "delete"} /\ persisted.readable) =>
          /\ persisted = Written(vocabulary)
          /\ getItem(persisted) = vocabulary

\* the store mounted on a text that is not valid JSON and came up empty; a
\* word was then added and reviewed, and the list was written over the text
CorruptStorageLoadsEmptyWitness ==
    /\ loaded = [from |-> "invalid", result |-> <<>>]
    /\ ops = 2
    /\ last.op = "review"
    /\ last.before.practiceCount = 1
    /\ Len(vocabulary) = 1
    /\ persisted = Written(vocabulary)

----------------------------------------------------------------------------
(* C25 - The session ends in the summary: when the last remaining card of  *)
(* a session opened with at least one word has been graded or skipped, the *)
(* view shows the review summary, under every render of the parent that    *)
(* follows, also when the grading emptied the list the application passes  *)
(* in; 'No Vocabulary to Review' shows only in a session opened with no    *)
(* words.                                                                  *)

LastCardShowsSummary ==
    (showFlashcards /\ ~hasError) =>
        /\ (/\ sess.act # "none"
            /\ sess.initial # <<>>
            /\ sess.idxBefore = Len(sess.listBefore) - 1) =>
               CurrentScreen = "summary"
        /\ CurrentScreen = "empty" => sess.initial = <<>>

----------------------------------------------------------------------------
(* C29 - The cursor stays inside the list: while the session presents a    *)
(* card (it is mounted on a list that is not empty and the summary is not  *)
(* shown), 0 <= currentIndex < length of the list it walks, so that the    *)
(* current card is defined.                                                *)

CursorInBounds ==
    (showFlashcards /\ ~showSummary /\ propVocab # <<>>) =>
        /\ currentIndex >= 0
        /\ currentIndex < Len(WalkList(variant, propVocab, remainingWords))

----------------------------------------------------------------------------
(* Extraction while a flashcard session is open: the conversation goes on  *)
(* behind the overlay and extractAndAddVocabulary reinforces stored words  *)

NextRace ==
    \/ stamp < MaxRaceExtract
         /\ \E ws \in Batches(MaxRaceBatch) : ExtractAndAddVocabulary(ws)
    \/ OpenFlashcards
    \/ CloseFlashcards
    \/ \E quality \in Ratings : HandleReview4(quality)
    \/ \E result \in Results : HandleReview3(result)
    \/ HandleMastered
    \/ HandleSkip

SpecRace == Init /\ [][NextRace]_vars

----------------------------------------------------------------------------
(* C28 - No lost update between extraction and review: when addWord has    *)
(* reinforced a word after the session captured it (the stored             *)
(* practiceCount is one above the one of the session's card), grading the  *)
(* card as forgot/remembered or again/hard/good/easy leaves the stored     *)
(* practiceCount two above the captured one, the reinforcement and the     *)
(* review both counted.                                                    *)

NoLostUpdate ==
    [][(/\ sess'.actions = sess.actions + 1
        /\ sess'.act = "review"
        /\ Stored(vocabulary, currentWord.id).practiceCount
             = currentWord.practiceCount + 1) =>
           Stored(vocabulary', currentWord.id).practiceCount
             = currentWord.practiceCount + 2]_vars

----------------------------------------------------------------------------
(* retryLogic.ts: one call of retryWithBackoff(fn, config), its awaits as  *)
(* steps. Delays are in milliseconds.                                      *)

DEFAULT_RETRY_CONFIG ==
    [maxRetries |-> 3, initialDelay |-> 1000, maxDelay |-> 10000, backoffMultiplier |-> 2]

\* the configurations a caller passes: the default, and those of the
\* RetryConfig type over a few delays on both sides of maxDelay
RetryConfigs ==
    {DEFAULT_RETRY_CONFIG}
    \cup [maxRetries : 0 .. MaxRetriesIn,
          initialDelay : {1000, 4000, 20000},
          maxDelay : {10000},
          backoffMultiplier : {2}]

\* what fn can reject with: a network error (no status), HTTP statuses, and
\* an error whose message includes 'Invalid API key'
RetryErrors ==
    [status : {0, 400, 401, 403, 429, 500}, invalidKey : {FALSE}]
    \cup {[status |-> 0, invalidKey |-> TRUE]}

isNonRetryableError(error) ==
    \/ error.status = 401 \/ error.status = 400 \/ error.status = 403
    \/ error.invalidKey

Min(a, b) == IF a <= b THEN a ELSE b

retryFrame == <<now, stamp, vocabulary, persisted, quotaFull, hasError, showFlashcards,
                variant, propVocab, remainingWords, currentIndex, stats, showSummary,
                ops, last, prev, adds, sess, dueResult, loaded, wake>>

\* retryWithBackoff(fn, config) up to its first await fn()
CallRetry(config) ==
    /\ retry.status = "idle"
    /\ retry' = [NoRetry EXCEPT !.status = "calling", !.config = config,
                                !.delay = config.initialDelay]
    /\ UNCHANGED retryFrame

\* await fn() resolves: return the value
FnResolves ==
    /\ retry.status = "calling"
    /\ retry' = [retry EXCEPT !.status = "returned",
                              !.invocations = @ + 1,
                              !.returned = retry.invocations + 1]
    /\ UNCHANGED retryFrame

\* await fn() rejects: the catch block up to its throw or its await sleep(delay)
FnRejects(error) ==
    /\ retry.status = "calling"
    /\ retry' = IF isNonRetryableError(error) \/ retry.attempt >= retry.config.maxRetries
                THEN [retry EXCEPT !.status = "threw",
                                   !.invocations = @ + 1,
                                   !.lastError = error,
                                   !.thrown = error]
                ELSE [retry EXCEPT !.status = "sleeping",
                                   !.invocations = @ + 1,
                                   !.lastError = error,
                                   !.sleepFor = retry.delay]
    /\ UNCHANGED retryFrame

\* await sleep(delay) resolves: the next delay, attempt++, the next await fn()
SleepResolves ==
    /\ retry.status = "sleeping"
    /\ retry' = [retry EXCEPT !.status = "calling",
                              !.delay = Min(retry.delay * retry.config.backoffMultiplier,
                                            retry.config.maxDelay),
                              !.attempt = @ + 1]
    /\ UNCHANGED retryFrame

NextRetry ==
    \/ \E config \in RetryConfigs : CallRetry(config)
    \/ FnResolves
    \/ \E error \in RetryErrors : FnRejects(error)
    \/ SleepResolves

SpecRetry == InitWord /\ [][NextRetry]_vars

----------------------------------------------------------------------------
(* C26 - Bounded retries: retryWithBackoff invokes fn at most              *)
(* maxRetries + 1 times; it returns the first successful result, rethrows  *)
(* at once (no further attempt) on a non-retryable error (status 400, 401, *)
(* 403 or an 'Invalid API key' message), rethrows the last error when the  *)
(* attempts are used up; and the delay before each retry never exceeds     *)
(* maxDelay.                                                               *)

RetryAttemptsBounded ==
    /\ retry.invocations <= retry.config.maxRetries + 1
    /\ retry.status = "returned" =>
          /\ retry.returned = retry.invocations
          /\ retry.invocations = retry.attempt + 1
    /\ (retry.status # "idle" /\ isNonRetryableError(retry.lastError)) =>
          /\ retry.status = "threw"
          /\ retry.thrown = retry.lastError
    /\ retry.status = "threw" =>
          /\ retry.thrown = retry.lastError
          /\ \/ isNonRetryableError(retry.lastError)
             \/ retry.invocations = retry.config.maxRetries + 1
    /\ (retry.status \in {"calling", "sleeping"} /\ retry.invocations > 0) =>
          retry.invocations <= retry.config.maxRetries

RetryDelayCapped ==
    retry.status = "sleeping" => retry.sleepFor <= retry.config.maxDelay

RetryContract == RetryAttemptsBounded /\ RetryDelayCapped

----------------------------------------------------------------------------
(* useWakeLock.ts: the hook's refs, the navigator.wakeLock.request calls   *)
(* in flight, the sentinels the browser has granted and not released, and  *)
(* the 'release' events it has still to deliver. Each action is one run of *)
(* the hook's code between two awaits or one step of the browser.          *)

wakeFrame == <<now, stamp, vocabulary, persisted, quotaFull, hasError, showFlashcards,
               variant, propVocab, remainingWords, currentIndex, stats, showSummary,
               ops, last, prev, adds, sess, dueResult, loaded, retry>>

\* attemptAcquire up to its await: the record after it, starting from `w`
attemptAcquire(w) ==
    IF w.sentinelRef # 0 THEN w
    ELSE IF ~w.visible THEN w
    ELSE [w EXCEPT !.inFlight = @ + 1]

\* requestWakeLock()
RequestWakeLock ==
    /\ wake.calls < MaxWakeCalls
    /\ wake' = attemptAcquire([wake EXCEPT !.shouldHold = TRUE,
                                           !.lastCall = "request",
                                           !.calls = @ + 1])
    /\ UNCHANGED wakeFrame

\* releaseWakeLock(): sentinel.release() releases the lock; the browser
\* delivers the sentinel's 'release' event afterwards
ReleaseWakeLock ==
    /\ wake.calls < MaxWakeCalls
    /\ wake' = [wake EXCEPT !.shouldHold = FALSE,
                            !.lastCall = "release",
                            !.calls = @ + 1,
                            !.sentinelRef = 0,
                            !.isActive = FALSE,
                            !.held = @ \ {wake.sentinelRef},
                            !.events = IF wake.sentinelRef \in wake.held
                                       THEN @ \cup {wake.sentinelRef} ELSE @]
    /\ UNCHANGED wakeFrame

\* navigator.wakeLock.request('screen') resolves: attemptAcquire after its await
RequestResolves ==
    /\ wake.inFlight > 0
    /\ wake.visible
    /\ wake' = [wake EXCEPT !.inFlight = @ - 1,
                            !.sentinelRef = wake.nextSentinel,
                            !.isActive = TRUE,
                            !.held = @ \cup {wake.nextSentinel},
                            !.nextSentinel = @ + 1]
    /\ UNCHANGED wakeFrame

\* navigator.wakeLock.request('screen') rejects: the catch block
RequestRejects ==
    /\ wake.inFlight > 0
    /\ wake' = [wake EXCEPT !.inFlight = @ - 1]
    /\ UNCHANGED wakeFrame

\* the document is hidden: the browser releases every screen wake lock; the
\* visibilitychange handler does nothing
BecomesHidden ==
    /\ wake.flips < MaxWakeFlips
    /\ wake.visible
    /\ wake' = [wake EXCEPT !.visible = FALSE,
                            !.flips = @ + 1,
                            !.held = {},
                            !.events = @ \cup wake.held]
    /\ UNCHANGED wakeFrame

\* the document is visible again: handleVisibilityChange
BecomesVisible ==
    /\ wake.flips < MaxWakeFlips
    /\ ~wake.visible
    /\ LET w == [wake EXCEPT !.visible = TRUE, !.flips = @ + 1]
       IN  wake' = IF w.shouldHold /\ w.sentinelRef = 0 THEN attemptAcquire(w) ELSE w
    /\ UNCHANGED wakeFrame

\* the 'release' event of sentinel s is delivered: handleRelease
HandleRelease(s) ==
    /\ s \in wake.events
    /\ LET w == [wake EXCEPT !.events = @ \ {s},
                             !.sentinelRef = 0,
                             !.isActive = FALSE]
       IN  wake' = IF w.shouldHold THEN attemptAcquire(w) ELSE w
    /\ UNCHANGED wakeFrame

NextWake ==
    \/ RequestWakeLock
    \/ ReleaseWakeLock
    \/ RequestResolves
    \/ RequestRejects
    \/ BecomesHidden
    \/ BecomesVisible
    \/ \E s \in wake.events : HandleRelease(s)

SpecWake == InitWord /\ [][NextWake]_vars

----------------------------------------------------------------------------
(* C30 - The wake lock is held only while wanted: whatever the order of    *)
(* requestWakeLock, releaseWakeLock, visibility changes, 'release' events  *)
(* and completions of navigator.wakeLock.request, once releaseWakeLock is  *)
(* the most recent call and no request is in flight, no granted sentinel   *)
(* is left unreleased and sentinelRef is null.                             *)

WakeLockOnlyWhileWanted ==
    (wake.lastCall = "release" /\ wake.inFlight = 0) =>
        /\ wake.held = {}
        /\ wake.sentinelRef = 0

====
